---------------------------- MODULE Spec2Model ----------------------------
(***************************************************************************)
(* Query compilation and warmup planning of quickwit:                      *)
(*   quickwit-query/src/quickwit_query_ast/{mod,utils,range_query,         *)
(*   user_text_query}.rs, quickwit-query/src/lib.rs and                    *)
(*   quickwit-doc-mapper/src/query_builder.rs.                             *)
(*                                                                         *)
(* A field path is a sequence of its dot-separated segments; a field name  *)
(* of the schema is a path too (`server.name` is <<"server","name">>).     *)
(* A Result<T, InvalidQuery> is a record with tag "Ok", "Err" or "Panic"   *)
(* (a todo!() reached by the compiler).                                    *)
(***************************************************************************)
EXTENDS Naturals, Integers, Sequences, FiniteSets, TLC

VARIABLES
    pc,                     \* position of the entry point being run
    schema,                 \* the tantivy Schema handed to the entry point
    full_path,              \* find_field_or_hit_dynamic: its argument
    selection,              \* find_field_or_hit_dynamic: the (field, path) of lines 59-69
    resolution,             \* find_field_or_hit_dynamic: its return value
    query_ast,              \* the QueryAst being parsed, compiled or planned
    with_validation,        \* the validation flag of the running call
    impl_res,               \* result of into_tantivy_ast_impl on query_ast
    call_res,               \* result of into_tantivy_ast_call on query_ast
    strict_res,             \* build_tantivy_query(.., with_validation = true)
    lenient_res,            \* build_tantivy_query(.., with_validation = false)
    default_search_fields,  \* parse_user_query: the caller's default fields
    parsed_res,             \* parse_user_query: its return value
    request,                \* build_query: the SearchRequest
    fast_field_names,       \* build_query: local of line 56
    query,                  \* build_query: local of line 77
    term_set_query_fields,  \* build_query: local of line 79
    pending_terms,          \* query_terms: occurrences not yet reported
    reported_terms,         \* query_terms: occurrences reported so far
    terms_grouped_by_field, \* build_query: local of line 81
    build_res,              \* build_query: its return value
    value_arg,              \* compute_query: the text to search for
    tokenize_arg,           \* compute_query: whether the text is tokenized
    term_res                \* compute_query: its return value

vars == <<pc, schema, full_path, selection, resolution, query_ast, with_validation,
          impl_res, call_res, strict_res, lenient_res, default_search_fields,
          parsed_res, request, fast_field_names, query, term_set_query_fields,
          pending_terms, reported_terms, terms_grouped_by_field, build_res,
          value_arg, tokenize_arg, term_res>>

-----------------------------------------------------------------------------
(* Bounds of the model.                                                    *)

\* most children (over its four clause lists) of a generated Bool node
MaxBoolChildren == 2
\* most wrappers (Boost, one-clause Bool) around a generated leaf
MaxDepth == 2

-----------------------------------------------------------------------------
(* Sequences helpers.                                                      *)

Prefix(s, n) == SubSeq(s, 1, n)
Suffix(s, n) == SubSeq(s, n + 1, Len(s))
Range(s) == {s[i] : i \in 1..Len(s)}
RemoveAt(s, i) == SubSeq(s, 1, i - 1) \o SubSeq(s, i + 1, Len(s))

-----------------------------------------------------------------------------
(* InvalidQuery and results.                                               *)

NoPath == <<>>
\* One InvalidQuery value: its kind and what it carries.
Error(kind, path, typ, value) == [kind |-> kind, path |-> path, typ |-> typ, value |-> value]
FieldDoesNotExist(p) == Error("FieldDoesNotExist", p, "", "")
JsonFieldRootNotSearchable(p) == Error("JsonFieldRootNotSearchable", p, "", "")
SchemaError(name) == Error("SchemaError", name, "", "not a fast field")
RangeQueryNotSupportedForField(typ, name) == Error("RangeQueryNotSupportedForField", name, typ, "")
InvalidBoundary(typ, name) == Error("InvalidBoundary", name, typ, "")
InvalidSearchTerm(typ, name, value) == Error("InvalidSearchTerm", name, typ, value)
UserQueryNotParsed == Error("UserQueryNotParsed", NoPath, "", "")
\* "Field `..` is of type `Str`. Range queries are only supported on boolean,
\* datetime, IP, and numeric fields" (query_builder.rs tests, lines 261-284)
RangeOnTextField(name) == Error("RangeOnTextField", name, "Str", "")
NoError == Error("none", NoPath, "", "")

Nothing == [none |-> TRUE]
Ok(v) == [tag |-> "Ok", val |-> v, err |-> NoError]
Err(e) == [tag |-> "Err", val |-> Nothing, err |-> e]
Panic == [tag |-> "Panic", val |-> Nothing, err |-> NoError]
NotRun == [tag |-> "NotRun", val |-> Nothing, err |-> NoError]
IsOk(r) == r.tag = "Ok"
IsErr(r) == r.tag = "Err"

-----------------------------------------------------------------------------
(* Schemas.                                                                *)

DYNAMIC_FIELD_NAME == <<"_dynamic">>
SOURCE_FIELD_NAME == <<"_source">>

\* A FieldEntry: value type, fast flag, and the tokenizer of its text
\* indexing options ("none" when the field has no text indexing).
Entry(typ, fast, tokenizer) == [typ |-> typ, fast |-> fast, tokenizer |-> tokenizer]

\* make_schema of the tests.
TestSchema ==
    (<<"title">> :> Entry("Str", FALSE, "default")) @@
    (<<"desc">> :> Entry("Str", FALSE, "default")) @@
    (<<"server", "name">> :> Entry("Str", FALSE, "default")) @@
    (<<"server", "mem">> :> Entry("Str", FALSE, "default")) @@
    (<<"server", "running">> :> Entry("Bool", TRUE, "none")) @@
    (SOURCE_FIELD_NAME :> Entry("Str", FALSE, "default")) @@
    (DYNAMIC_FIELD_NAME :> Entry("Json", FALSE, "default")) @@
    (<<"ip">> :> Entry("IpAddr", TRUE, "none")) @@
    (<<"ips">> :> Entry("IpAddr", TRUE, "none")) @@
    (<<"ip_notff">> :> Entry("IpAddr", FALSE, "none")) @@
    (<<"dt">> :> Entry("Date", TRUE, "none")) @@
    (<<"u64_fast">> :> Entry("U64", TRUE, "none")) @@
    (<<"i64_fast">> :> Entry("I64", TRUE, "none")) @@
    (<<"f64_fast">> :> Entry("F64", TRUE, "none"))

\* A schema without the dynamic field, with the field types make_schema
\* leaves out: a fast raw string, a facet, fast bytes, a fast JSON object.
StaticSchema ==
    (<<"title">> :> Entry("Str", FALSE, "default")) @@
    (<<"desc">> :> Entry("Str", FALSE, "default")) @@
    (<<"tag">> :> Entry("Str", TRUE, "raw")) @@
    (<<"dt">> :> Entry("Date", TRUE, "none")) @@
    (<<"u64_fast">> :> Entry("U64", TRUE, "none")) @@
    (<<"flag">> :> Entry("Bool", FALSE, "none")) @@
    (<<"cat">> :> Entry("Facet", TRUE, "none")) @@
    (<<"blob">> :> Entry("Bytes", TRUE, "none")) @@
    (<<"attrs">> :> Entry("Json", TRUE, "default"))

Schemas == {TestSchema, StaticSchema}

\* Schema::get_field: the field of that exact name.
get_field(sch, name) == IF name \in DOMAIN sch THEN Ok(name) ELSE Err(NoError)

\* Schema::find_field: the exact name first, then the longest proper prefix
\* ending at a dot that names a field; the rest of the path is the residual.
find_field(sch, path) ==
    LET hits == {n \in 1..Len(path) : Prefix(path, n) \in DOMAIN sch}
    IN  IF hits = {} THEN Nothing
        ELSE LET n == CHOOSE m \in hits : \A k \in hits : k <= m
             IN  [none |-> FALSE, field |-> Prefix(path, n), path |-> Suffix(path, n)]

-----------------------------------------------------------------------------
(* utils.rs: find_field_or_hit_dynamic.                                    *)

Resolved(field, path) == [field |-> field, path |-> path]

\* A selection that goes to the dynamic field without looking at the
\* declared fields.
select_field_SkipDirect(direct, path, sch) ==
    IF IsOk(get_field(sch, DYNAMIC_FIELD_NAME))
    THEN Ok(Resolved(DYNAMIC_FIELD_NAME, path))
    ELSE Err(FieldDoesNotExist(path))

\* lines 59-69, given the answer of find_field: the declared fields
\* first, the dynamic field otherwise.
select_field(direct, path, sch) ==
    IF ~direct.none
    THEN Ok(Resolved(direct.field, direct.path))
    ELSE IF IsOk(get_field(sch, DYNAMIC_FIELD_NAME))
         THEN Ok(Resolved(DYNAMIC_FIELD_NAME, path))
         ELSE Err(FieldDoesNotExist(path))

\* Checks that let the root of a JSON field through.
check_residual_path_NoRootCheck(sel, path, sch) ==
    IF sel.path # <<>> /\ sch[sel.field].typ # "Json"
    THEN Err(FieldDoesNotExist(path)) ELSE Ok(sel)

\* Checks that let a sub-path of a non-JSON field through.
check_residual_path_NoSubPathCheck(sel, path, sch) ==
    IF sel.path = <<>> /\ sch[sel.field].typ = "Json"
    THEN Err(JsonFieldRootNotSearchable(path)) ELSE Ok(sel)

\* lines 70-85: the JSON root and the sub-path of a non-JSON field.
check_residual_path(sel, path, sch) ==
    LET typ == sch[sel.field].typ
    IN  IF sel.path = <<>>
        THEN IF typ = "Json" THEN Err(JsonFieldRootNotSearchable(path)) ELSE Ok(sel)
        ELSE IF typ # "Json" THEN Err(FieldDoesNotExist(path)) ELSE Ok(sel)

\* lines 70-85 on the outcome of lines 59-69 (`?` returns its error).
check_selection(sel, path, sch) ==
    IF IsOk(sel) THEN check_residual_path(sel.val, path, sch) ELSE sel

\* lines 55-86
find_field_or_hit_dynamic(path, sch) ==
    check_selection(select_field(find_field(sch, path), path, sch), path, sch)

-----------------------------------------------------------------------------
(* mod.rs: QueryAst, and the values its nodes hold.                        *)

\* JsonLiteral: a string, a number or a boolean as written in the request.
JsonLiteral(lit, text) == [lit |-> lit, text |-> text]
\* std::ops::Bound<JsonLiteral>
Included(v) == [b |-> "Included", v |-> v]
Excluded(v) == [b |-> "Excluded", v |-> v]
Unbounded == [b |-> "Unbounded", v |-> JsonLiteral("none", "")]

\* Option<Vec<String>>
None == [some |-> FALSE, fields |-> <<>>]
Some(fields) == [some |-> TRUE, fields |-> fields]

BoolQuery(must, must_not, should, filter) ==
    [type |-> "Bool", must |-> must, must_not |-> must_not, should |-> should, filter |-> filter]
TermQuery(field, value) == [type |-> "Term", field |-> field, value |-> value]
\* terms_per_field: the (field, values) entries in key order
TermSetQuery(terms_per_field) == [type |-> "TermSet", terms_per_field |-> terms_per_field]
PhraseQuery(field, phrase) == [type |-> "Phrase", field |-> field, phrase |-> phrase]
RangeQuery(field, lower_bound, upper_bound) ==
    [type |-> "Range", field |-> field, lower_bound |-> lower_bound, upper_bound |-> upper_bound]
UserTextQuery(user_text, default_fields, default_operator) ==
    [type |-> "UserText", user_text |-> user_text, default_fields |-> default_fields,
     default_operator |-> default_operator]
MatchAll == [type |-> "MatchAll"]
MatchNone == [type |-> "MatchNone"]
Boost(underlying, boost) == [type |-> "Boost", underlying |-> underlying, boost |-> boost]

\* The children of a node, in the order the compiler visits them.
Children(ast) ==
    CASE ast.type = "Bool" -> ast.must \o ast.must_not \o ast.should \o ast.filter
      [] ast.type = "Boost" -> <<ast.underlying>>
      [] OTHER -> <<>>

RECURSIVE Nodes(_)
\* Every node of an AST, itself included.
Nodes(ast) == {ast} \cup UNION {Nodes(c) : c \in Range(Children(ast))}

-----------------------------------------------------------------------------
(* TantivyQueryAst: the compiled form.                                     *)

\* tantivy::Term: a field, the JSON path under it, a value type and a value
Term(field, jpath, vtype, value) == [field |-> field, jpath |-> jpath, vtype |-> vtype, value |-> value]

TantivyMatchAll == [q |-> "MatchAll"]
TantivyMatchNone == [q |-> "MatchNone"]
TantivyTermQuery(term) == [q |-> "Term", term |-> term]
\* terms: the (position, term) pairs of PhraseQuery::new_with_offset
TantivyPhraseQuery(terms) == [q |-> "Phrase", terms |-> terms]
TantivyRangeQuery(field, vtype, lower, upper) ==
    [q |-> "Range", field |-> field, vtype |-> vtype, lower |-> lower, upper |-> upper]
TantivyTermSetQuery(terms) == [q |-> "TermSet", terms |-> terms]
TantivyBoolQuery(must, must_not, should, filter) ==
    [q |-> "Bool", must |-> must, must_not |-> must_not, should |-> should, filter |-> filter]
TantivyBoostQuery(underlying, boost) == [q |-> "Boost", underlying |-> underlying, boost |-> boost]

-----------------------------------------------------------------------------
(* Tokenizers and value parsing.                                           *)

\* A number written with more digits than RemoveLongFilter lets through
\* (leading zeros): it reads as the number 7 and gives no token.
LongNumber == "0...07 (300 digits)"

\* The texts of the model and how the default tokenizer splits them
\* (lower-cased words; punctuation alone gives no token; a token longer
\* than the RemoveLongFilter limit is dropped).
Words(text) ==
    CASE text = "hello" -> <<"hello">>
      [] text = LongNumber -> <<>>
      [] text = "2023-01-10T15:13:35Z" -> <<"2023", "01", "10t15", "13", "35z">>
      [] text = "Hello World" -> <<"hello", "world">>
      [] text = "hello world" -> <<"hello", "world">>
      [] text = "7" -> <<"7">>
      [] text = "true" -> <<"true">>
      [] text = "!" -> <<>>
      [] OTHER -> <<text>>

\* TokenizerManager::get: the registered tokenizers.
RegisteredTokenizers == {"default", "raw"}

\* get_tokenizer / get_tokenizer_from_json_option (lines 39-49): the
\* analyzer of the field's text indexing options, if both exist.
get_tokenizer(entry) ==
    IF entry.tokenizer \in RegisteredTokenizers THEN Some(<<entry.tokenizer>>) ELSE None

\* TextAnalyzer::token_stream: the (position, text) tokens of a value.
token_stream(tokenizer, text) ==
    IF tokenizer = "raw" THEN (IF text = LongNumber THEN <<>> ELSE <<<<0, text>>>>)
    ELSE [i \in 1..Len(Words(text)) |-> <<i - 1, Words(text)[i]>>]

\* FromStr of the value types, on the texts of the model.
ParsesAs(text, typ) ==
    CASE typ \in {"U64", "I64", "F64"} -> text \in {"7", LongNumber}
      [] typ = "Bool" -> text = "true"
      [] typ = "Date" -> text = "2023-01-10T15:13:35Z"
      [] typ = "IpAddr" -> text = "127.0.0.1"
      [] OTHER -> FALSE

\* InterpretUserInput::interpret of a JsonLiteral as a value of a type.
Interprets(lit, typ) ==
    CASE lit.lit = "String" -> typ = "Str" \/ ParsesAs(lit.text, typ)
      [] lit.lit = "Number" -> typ \in {"U64", "I64", "F64"}
      [] lit.lit = "Bool" -> typ = "Bool"
      [] OTHER -> FALSE

-----------------------------------------------------------------------------
(* utils.rs: compute_query and the per-type term construction.             *)

make_term_query(term) == TantivyTermQuery(term)

\* One entry of `terms`: the token's position and its Term.
TokenTerms(field, jpath, tokens) ==
    [i \in 1..Len(tokens) |-> <<tokens[i][1], Term(field, jpath, "Str", tokens[i][2])>>]

\* convert_to_fast_value_and_get_term: the typed reading of a JSON text.
convert_to_fast_value_and_get_term(field, jpath, text) ==
    CASE ParsesAs(text, "Date") -> Some(<<Term(field, jpath, "Date", text)>>)
      [] ParsesAs(text, "I64") -> Some(<<Term(field, jpath, "I64", text)>>)
      [] ParsesAs(text, "Bool") -> Some(<<Term(field, jpath, "Bool", text)>>)
      [] OTHER -> None

\* The query of the tokens of a text: none, one term, or a phrase
\* (lines 159-166 and 230-239).
TermsQuery(terms) ==
    IF Len(terms) = 1 THEN make_term_query(terms[1][2]) ELSE TantivyPhraseQuery(terms)

\* The analyzer to use: none when the caller does not tokenize.
AnalyzerFor(entry, tokenize) == IF tokenize THEN get_tokenizer(entry) ELSE None

\* lines 223-247, given the should clause of the typed reading
json_text_query(should0, terms_opt, verbatim) ==
    IF terms_opt.some
    THEN IF Len(terms_opt.fields) = 0 THEN TantivyMatchNone
         ELSE TantivyBoolQuery(<<>>, <<>>, should0 \o <<TermsQuery(terms_opt.fields)>>, <<>>)
    ELSE TantivyBoolQuery(<<>>, <<>>, should0 \o <<make_term_query(verbatim)>>, <<>>)

\* The typed reading as a should clause (lines 213-217).
FastValueClause(fast_value) ==
    IF fast_value.some THEN <<make_term_query(fast_value.fields[1])>> ELSE <<>>

\* The tokens of a text as terms, if there is an analyzer.
AnalyzedTerms(field, jpath, analyzer_opt, text) ==
    IF analyzer_opt.some
    THEN [some |-> TRUE,
          fields |-> TokenTerms(field, jpath, token_stream(analyzer_opt.fields[1], text))]
    ELSE None

\* lines 198-248
compute_tantivy_ast_query_for_json(field, entry, json_path, text, tokenize) ==
    json_text_query(
        FastValueClause(convert_to_fast_value_and_get_term(field, json_path, text)),
        AnalyzedTerms(field, json_path, AnalyzerFor(entry, tokenize), text),
        Term(field, json_path, "Str", text))

\* A Str arm without the case of no token.
str_text_query_NoEmptyCase(terms_opt, verbatim) ==
    IF terms_opt.some
    THEN Ok(TermsQuery(terms_opt.fields))
    ELSE Ok(make_term_query(verbatim))

\* lines 153-170
str_text_query(terms_opt, verbatim) ==
    IF terms_opt.some
    THEN IF Len(terms_opt.fields) = 0 THEN Ok(TantivyMatchNone)
         ELSE Ok(TermsQuery(terms_opt.fields))
    ELSE Ok(make_term_query(verbatim))

\* lines 106-196
compute_query_with_field(field, entry, json_path, value, tokenize) ==
    CASE entry.typ \in {"U64", "I64", "F64", "Bool", "Date", "IpAddr"} ->
            IF ParsesAs(value, entry.typ)
            THEN Ok(make_term_query(Term(field, <<>>, entry.typ, value)))
            ELSE Err(InvalidSearchTerm(entry.typ, field, value))
      [] entry.typ = "Str" ->
            str_text_query(AnalyzedTerms(field, <<>>, AnalyzerFor(entry, tokenize), value),
                           Term(field, <<>>, "Str", value))
      [] entry.typ = "Json" ->
            Ok(compute_tantivy_ast_query_for_json(field, entry, json_path, value, tokenize))
      [] OTHER -> Panic   \* Facet, Bytes: todo!()

\* line 95 on the outcome of line 94
compute_query_found(found, value, tokenize, sch) ==
    IF IsOk(found)
    THEN compute_query_with_field(found.val.field, sch[found.val.field],
                                  found.val.path, value, tokenize)
    ELSE found

\* lines 88-96
compute_query(path, value, tokenize, sch) ==
    compute_query_found(find_field_or_hit_dynamic(path, sch), value, tokenize, sch)

-----------------------------------------------------------------------------
(* range_query.rs                                                          *)

\* convert_bound (lines 38-62)
convert_bound(bound, typ, field_name) ==
    IF bound.b = "Unbounded" THEN Ok(bound)
    ELSE IF Interprets(bound.v, typ) THEN Ok(bound)
    ELSE Err(InvalidBoundary(typ, field_name))

\* The range query of two converted bounds; the lower bound fails first.
range_of_bounds(range_query, typ, lower_bound, upper_bound) ==
    IF ~IsOk(lower_bound) THEN lower_bound
    ELSE IF ~IsOk(upper_bound) THEN upper_bound
    ELSE Ok(TantivyRangeQuery(range_query.field, typ, lower_bound.val, upper_bound.val))

\* A dispatch on the field type that checks the fast flag only in the
\* arms that build a range query.
range_on_field_DispatchFirst(range_query, field_name, entry) ==
    CASE entry.typ \in {"Str", "U64", "I64", "F64", "Date", "IpAddr"} ->
            IF ~entry.fast THEN Err(SchemaError(field_name))
            ELSE range_of_bounds(range_query, entry.typ,
                                 convert_bound(range_query.lower_bound, entry.typ, field_name),
                                 convert_bound(range_query.upper_bound, entry.typ, field_name))
      [] entry.typ = "Bool" -> Err(RangeQueryNotSupportedForField("bool", field_name))
      [] entry.typ = "Facet" -> Err(RangeQueryNotSupportedForField("facet", field_name))
      [] OTHER -> Panic

\* A dispatch that builds a range query on a boolean field as on a number.
range_on_field_BoolRange(range_query, field_name, entry) ==
    IF ~entry.fast THEN Err(SchemaError(field_name))
    ELSE CASE entry.typ \in {"Str", "U64", "I64", "F64", "Date", "IpAddr", "Bool"} ->
                range_of_bounds(range_query, entry.typ,
                                convert_bound(range_query.lower_bound, entry.typ, field_name),
                                convert_bound(range_query.upper_bound, entry.typ, field_name))
           [] entry.typ = "Facet" -> Err(RangeQueryNotSupportedForField("facet", field_name))
           [] OTHER -> Panic

\* lines 78-155: the fast check, then the dispatch on the field type
range_on_field(range_query, field_name, entry) ==
    IF ~entry.fast THEN Err(SchemaError(field_name))
    ELSE CASE entry.typ \in {"Str", "U64", "I64", "F64", "Date", "IpAddr"} ->
                range_of_bounds(range_query, entry.typ,
                                convert_bound(range_query.lower_bound, entry.typ, field_name),
                                convert_bound(range_query.upper_bound, entry.typ, field_name))
           [] entry.typ = "Bool" -> Err(RangeQueryNotSupportedForField("bool", field_name))
           [] entry.typ = "Facet" -> Err(RangeQueryNotSupportedForField("facet", field_name))
           [] OTHER -> Panic   \* Bytes, JsonObject: todo!()

\* lines 76-78 on the outcome of find_field_or_hit_dynamic
range_found(range_query, found, sch) ==
    IF ~IsOk(found) THEN found
    ELSE range_on_field(range_query, found.val.field, sch[found.val.field])

\* RangeQuery::into_tantivy_ast_impl (lines 70-156)
RangeQuery_into_tantivy_ast_impl(range_query, sch) ==
    range_found(range_query, find_field_or_hit_dynamic(range_query.field, sch), sch)

-----------------------------------------------------------------------------
(* user_text_query.rs                                                      *)

\* UserTextQuery::into_tantivy_ast_impl (lines 58-67)
UserTextQuery_into_tantivy_ast_impl(user_text_query, sch) == Err(UserQueryNotParsed)

-----------------------------------------------------------------------------
(* mod.rs: the compiler.                                                   *)

\* A wrapper that returns the result of the impl in both modes.
into_tantivy_ast_call_Propagate(tantivy_ast_res, validation) == tantivy_ast_res

\* A wrapper that answers match-none without validation whether or not the
\* impl returned an error.
into_tantivy_ast_call_NoneWhenLenient(tantivy_ast_res, validation) ==
    IF ~validation /\ tantivy_ast_res.tag # "Panic" THEN Ok(TantivyMatchNone)
    ELSE tantivy_ast_res

\* IntoTantivyAst::into_tantivy_ast_call (lines 75-86), given the result
\* of the node's into_tantivy_ast_impl. A panic of the impl unwinds
\* through the wrapper.
into_tantivy_ast_call(tantivy_ast_res, validation) ==
    IF ~validation /\ IsErr(tantivy_ast_res)
    THEN Ok(TantivyMatchNone)
    ELSE tantivy_ast_res

\* TermQuery::into_tantivy_ast_impl: a tokenized term on the field.
TermQuery_into_tantivy_ast_impl(term_query, sch) ==
    compute_query(term_query.field, term_query.value, TRUE, sch)

\* PhraseQuery::into_tantivy_ast_impl: the tokenized phrase on the field;
\* fewer than two tokens give a term match.
PhraseQuery_into_tantivy_ast_impl(phrase_query, sch) ==
    compute_query(phrase_query.field, phrase_query.phrase, TRUE, sch)

\* The terms of one field of a TermSet joined to those of the next fields.
term_set_entry(entry, found, rest) ==
    IF ~IsOk(found) THEN found
    ELSE IF ~IsOk(rest) THEN rest
    ELSE Ok({Term(found.val.field, found.val.path, "Str", v) : v \in entry.values}
            \cup rest.val)

RECURSIVE TermSetTerms(_, _)
\* The terms of a TermSet, field after field; the first field that does
\* not resolve fails the node.
TermSetTerms(terms_per_field, sch) ==
    IF terms_per_field = <<>> THEN Ok({})
    ELSE term_set_entry(Head(terms_per_field),
                        find_field_or_hit_dynamic(Head(terms_per_field).field, sch),
                        TermSetTerms(Tail(terms_per_field), sch))

TermSetOf(terms) == IF IsOk(terms) THEN Ok(TantivyTermSetQuery(terms.val)) ELSE terms

\* TermSetQuery::into_tantivy_ast_impl
TermSetQuery_into_tantivy_ast_impl(term_set, sch) ==
    TermSetOf(TermSetTerms(term_set.terms_per_field, sch))

\* The first error or panic among the compiled clauses, in order, ends the
\* compilation of a list (`?`); otherwise the compiled clauses.
Collect(results) ==
    LET bad == {i \in 1..Len(results) : ~IsOk(results[i])}
    IN  IF bad = {} THEN Ok([i \in 1..Len(results) |-> results[i].val])
        ELSE results[CHOOSE i \in bad : \A j \in bad : i <= j]

\* The compiled clauses, in the order must, must_not, should, filter, put
\* back into the four lists of a TantivyBoolQuery.
bool_of_clauses(bool_query, all) ==
    IF ~IsOk(all) THEN all
    ELSE Ok(TantivyBoolQuery(
            SubSeq(all.val, 1, Len(bool_query.must)),
            SubSeq(all.val, Len(bool_query.must) + 1,
                   Len(bool_query.must) + Len(bool_query.must_not)),
            SubSeq(all.val, Len(bool_query.must) + Len(bool_query.must_not) + 1,
                   Len(all.val) - Len(bool_query.filter)),
            SubSeq(all.val, Len(all.val) - Len(bool_query.filter) + 1, Len(all.val))))

\* BoolQuery::into_tantivy_ast_impl: the clauses of must, must_not, should
\* and filter, compiled in that order; `compiled` holds the result of
\* into_tantivy_ast_call on each child.
BoolQuery_into_tantivy_ast_impl(bool_query, compiled) ==
    bool_of_clauses(bool_query, Collect(compiled))

\* into_tantivy_ast_impl of the node's own type: what the node itself
\* does, before any wrapper. The Boost arm is lines 108-113 of mod.rs.
Node_into_tantivy_ast_impl(ast, compiled, sch) ==
    CASE ast.type = "Bool" -> BoolQuery_into_tantivy_ast_impl(ast, compiled)
      [] ast.type = "Term" -> TermQuery_into_tantivy_ast_impl(ast, sch)
      [] ast.type = "Range" -> RangeQuery_into_tantivy_ast_impl(ast, sch)
      [] ast.type = "TermSet" -> TermSetQuery_into_tantivy_ast_impl(ast, sch)
      [] ast.type = "Phrase" -> PhraseQuery_into_tantivy_ast_impl(ast, sch)
      [] ast.type = "UserText" -> UserTextQuery_into_tantivy_ast_impl(ast, sch)
      [] ast.type = "MatchAll" -> Ok(TantivyMatchAll)
      [] ast.type = "MatchNone" -> Ok(TantivyMatchNone)
      [] ast.type = "Boost" ->
            IF ~IsOk(compiled[1]) THEN compiled[1]
            ELSE Ok(TantivyBoostQuery(compiled[1].val, ast.boost))

\* impl IntoTantivyAst for QueryAst (lines 89-125), given the result of the
\* node's own impl: the typed nodes go through their own
\* into_tantivy_ast_call, the others are compiled in place.
QueryAst_dispatch(ast, own, validation) ==
    IF ast.type \in {"MatchAll", "MatchNone", "Boost"}
    THEN own
    ELSE into_tantivy_ast_call(own, validation)

QueryAst_into_tantivy_ast_impl(ast, compiled, sch, validation) ==
    QueryAst_dispatch(ast, Node_into_tantivy_ast_impl(ast, compiled, sch), validation)

RECURSIVE QueryAst_into_tantivy_ast_call(_, _, _)
\* into_tantivy_ast_call on a QueryAst: its children are compiled by the
\* same call, then the node itself.
QueryAst_into_tantivy_ast_call(ast, sch, validation) ==
    into_tantivy_ast_call(
        QueryAst_into_tantivy_ast_impl(
            ast,
            [i \in 1..Len(Children(ast)) |->
                QueryAst_into_tantivy_ast_call(Children(ast)[i], sch, validation)],
            sch, validation),
        validation)

\* A variant that compiles the children with validation whatever the mode
\* of the call, so that only the root of the AST is lenient.
CompiledChildren_Strict(ast, sch, validation) ==
    [i \in 1..Len(Children(ast)) |->
        QueryAst_into_tantivy_ast_call(Children(ast)[i], sch, TRUE)]

\* The results of into_tantivy_ast_call on the children of a node.
CompiledChildren(ast, sch, validation) ==
    [i \in 1..Len(Children(ast)) |->
        QueryAst_into_tantivy_ast_call(Children(ast)[i], sch, validation)]

\* A compiled Bool or Boost rebuilt around other children.
WithChildren(q, qs) ==
    CASE q.q = "Bool" ->
            LET n1 == Len(q.must)
                n2 == n1 + Len(q.must_not)
                n3 == n2 + Len(q.should)
            IN  TantivyBoolQuery(SubSeq(qs, 1, n1), SubSeq(qs, n1 + 1, n2),
                                 SubSeq(qs, n2 + 1, n3), SubSeq(qs, n3 + 1, Len(qs)))
      [] q.q = "Boost" -> TantivyBoostQuery(qs[1], q.boost)
      [] OTHER -> q

\* The children of a compiled query, clause list after clause list.
TantivyChildren(q) ==
    CASE q.q = "Bool" -> q.must \o q.must_not \o q.should \o q.filter
      [] q.q = "Boost" -> <<q.underlying>>
      [] OTHER -> <<>>

NotMatchNone(q) == q # TantivyMatchNone

\* One step of simplify on a Bool whose clauses are simplified: a Bool
\* with a no-match must or filter clause matches nothing; no-match should
\* and must_not clauses are dropped; a Bool left with a single must or
\* should clause is that clause; an empty Bool matches all.
simplify_bool(q) ==
    LET must_not == SelectSeq(q.must_not, NotMatchNone)
        should == SelectSeq(q.should, NotMatchNone)
        n == Len(q.must) + Len(must_not) + Len(should) + Len(q.filter)
    IN  IF TantivyMatchNone \in Range(q.must) \cup Range(q.filter) THEN TantivyMatchNone
        ELSE IF Len(q.should) > 0 /\ Len(should) = 0 /\ Len(q.must) + Len(q.filter) = 0
        THEN TantivyMatchNone
        ELSE IF n = 0 THEN TantivyMatchAll
        ELSE IF n = 1 /\ Len(q.must) = 1 THEN q.must[1]
        ELSE IF n = 1 /\ Len(should) = 1 THEN should[1]
        ELSE TantivyBoolQuery(q.must, must_not, should, q.filter)

simplify_node(q) == IF q.q = "Bool" THEN simplify_bool(q) ELSE q

RECURSIVE simplify(_)
\* TantivyQueryAst::simplify: the children first, then the node.
simplify(q) ==
    simplify_node(
        WithChildren(q, [i \in 1..Len(TantivyChildren(q)) |-> simplify(TantivyChildren(q)[i])]))

\* line 136 on the outcome of line 135
simplified_query(tantivy_query_ast) ==
    IF ~IsOk(tantivy_query_ast) THEN tantivy_query_ast
    ELSE Ok(simplify(tantivy_query_ast.val))

\* QueryAst::build_tantivy_query (lines 127-138)
build_tantivy_query(ast, sch, validation) ==
    simplified_query(QueryAst_into_tantivy_ast_call(ast, sch, validation))

-----------------------------------------------------------------------------
(* lib.rs and user_text_query.rs: the free-text parser.                    *)

NoDefaultField == Error("NoDefaultField", NoPath, "", "")
UnsupportedSetQuery == Error("UnsupportedSetQuery", NoPath, "", "")
SyntaxError == Error("SyntaxError", NoPath, "", "")

\* The user texts of the model.
UserTexts == {"*", "title:hello", "hello", "title:hello desc:hello",
              "title: IN [hello]", "IN [hello]", "u64_fast:>7", "title:("}

\* A bare term on the default fields.
BareTerm(value, search_fields) ==
    IF Len(search_fields) = 1 THEN TermQuery(search_fields[1], value)
    ELSE BoolQuery(<<>>, <<>>,
                   [i \in 1..Len(search_fields) |-> TermQuery(search_fields[i], value)], <<>>)

\* QueryStringQuery::convert_to_query_ast: the grammar's reading of a text.
convert_to_query_ast(user_text, search_fields, default_operator) ==
    CASE user_text = "*" -> Ok(MatchAll)
      [] user_text = "title:hello" -> Ok(TermQuery(<<"title">>, "hello"))
      [] user_text = "hello" ->
            IF search_fields = <<>> THEN Err(NoDefaultField)
            ELSE Ok(BareTerm("hello", search_fields))
      [] user_text = "title:hello desc:hello" ->
            LET clauses == <<TermQuery(<<"title">>, "hello"), TermQuery(<<"desc">>, "hello")>>
            IN  IF default_operator = "And"
                THEN Ok(BoolQuery(clauses, <<>>, <<>>, <<>>))
                ELSE Ok(BoolQuery(<<>>, <<>>, clauses, <<>>))
      [] user_text = "title: IN [hello]" ->
            Ok(TermSetQuery(<<[field |-> <<"title">>, values |-> {"hello"}]>>))
      [] user_text = "IN [hello]" -> Err(UnsupportedSetQuery)
      [] user_text = "u64_fast:>7" ->
            Ok(RangeQuery(<<"u64_fast">>, Excluded(JsonLiteral("String", "7")), Unbounded))
      [] OTHER -> Err(SyntaxError)

\* lib.rs parse_user_query (lines 51-62)
lib_parse_user_query(user_text, search_fields, default_operator) ==
    convert_to_query_ast(user_text, search_fields, default_operator)

\* A variant that falls back to the caller's fields when the node's own
\* list is empty as well as when it is absent.
UserTextQuery_parse_user_query_EmptyFallsBack(user_text_query, search_fields) ==
    LET fields == IF user_text_query.default_fields.some
                     /\ user_text_query.default_fields.fields # <<>>
                  THEN user_text_query.default_fields.fields
                  ELSE search_fields
    IN  lib_parse_user_query(user_text_query.user_text, fields,
                             user_text_query.default_operator)

\* UserTextQuery::parse_user_query (user_text_query.rs lines 41-50)
UserTextQuery_parse_user_query(user_text_query, search_fields) ==
    LET fields == IF user_text_query.default_fields.some
                  THEN user_text_query.default_fields.fields
                  ELSE search_fields
    IN  lib_parse_user_query(user_text_query.user_text, fields,
                             user_text_query.default_operator)

RECURSIVE parse_user_query(_, _)
RECURSIVE parse_user_query_in_asts(_, _)

\* mod.rs parse_user_query_in_asts (lines 140-147)
parse_user_query_in_asts(asts, search_fields) ==
    IF asts = <<>> THEN Ok(<<>>)
    ELSE LET first == parse_user_query(Head(asts), search_fields)
         IN  IF ~IsOk(first) THEN first
             ELSE LET rest == parse_user_query_in_asts(Tail(asts), search_fields)
                  IN  IF ~IsOk(rest) THEN rest ELSE Ok(<<first.val>> \o rest.val)

\* A variant that returns the child of a Boost as it stands.
parse_user_query_KeepBoostChild(ast, search_fields) ==
    CASE ast.type = "Bool" ->
            LET must == parse_user_query_in_asts(ast.must, search_fields)
                must_not == parse_user_query_in_asts(ast.must_not, search_fields)
                should == parse_user_query_in_asts(ast.should, search_fields)
                filter == parse_user_query_in_asts(ast.filter, search_fields)
            IN  IF ~IsOk(must) THEN must
                ELSE IF ~IsOk(must_not) THEN must_not
                ELSE IF ~IsOk(should) THEN should
                ELSE IF ~IsOk(filter) THEN filter
                ELSE Ok(BoolQuery(must.val, must_not.val, should.val, filter.val))
      [] ast.type = "UserText" -> UserTextQuery_parse_user_query(ast, search_fields)
      [] OTHER -> Ok(ast)

\* mod.rs parse_user_query (lines 149-189)
parse_user_query(ast, search_fields) ==
    CASE ast.type = "Bool" ->
            LET must == parse_user_query_in_asts(ast.must, search_fields)
                must_not == parse_user_query_in_asts(ast.must_not, search_fields)
                should == parse_user_query_in_asts(ast.should, search_fields)
                filter == parse_user_query_in_asts(ast.filter, search_fields)
            IN  IF ~IsOk(must) THEN must
                ELSE IF ~IsOk(must_not) THEN must_not
                ELSE IF ~IsOk(should) THEN should
                ELSE IF ~IsOk(filter) THEN filter
                ELSE Ok(BoolQuery(must.val, must_not.val, should.val, filter.val))
      [] ast.type = "UserText" -> UserTextQuery_parse_user_query(ast, search_fields)
      [] ast.type = "Boost" ->
            LET underlying == parse_user_query(ast.underlying, search_fields)
            IN  IF ~IsOk(underlying) THEN underlying
                ELSE Ok(Boost(underlying.val, ast.boost))
      [] OTHER -> Ok(ast)

-----------------------------------------------------------------------------
(* The wire form of a QueryAst (serde, tag = "type").                      *)

MalformedJson == [json |-> "malformed"]

RECURSIVE to_json(_)
RECURSIVE from_json(_)
ToJsonAll(asts) == [i \in 1..Len(asts) |-> to_json(asts[i])]
FromJsonAll(docs) == [i \in 1..Len(docs) |-> from_json(docs[i])]

\* Serialize: a UserText without default_fields skips the key (the key
\* list is empty); a Boost and a Bool serialize their children.
to_json(ast) ==
    CASE ast.type = "UserText" ->
            [json |-> "object", type |-> "UserText", user_text |-> ast.user_text,
             default_operator |-> ast.default_operator,
             default_fields |-> IF ast.default_fields.some
                                THEN <<ast.default_fields.fields>> ELSE <<>>]
      [] ast.type = "Boost" ->
            [json |-> "object", type |-> "Boost", underlying |-> to_json(ast.underlying),
             boost |-> ast.boost]
      [] ast.type = "Bool" ->
            [json |-> "object", type |-> "Bool", must |-> ToJsonAll(ast.must),
             must_not |-> ToJsonAll(ast.must_not), should |-> ToJsonAll(ast.should),
             filter |-> ToJsonAll(ast.filter)]
      [] OTHER -> [json |-> "object", type |-> ast.type, node |-> ast]

\* Deserialize a well-formed document.
from_json(doc) ==
    CASE doc.type = "UserText" ->
            UserTextQuery(doc.user_text,
                          IF doc.default_fields = <<>> THEN None ELSE Some(doc.default_fields[1]),
                          doc.default_operator)
      [] doc.type = "Boost" -> Boost(from_json(doc.underlying), doc.boost)
      [] doc.type = "Bool" ->
            BoolQuery(FromJsonAll(doc.must), FromJsonAll(doc.must_not),
                      FromJsonAll(doc.should), FromJsonAll(doc.filter))
      [] OTHER -> doc.node

QueryParserError == Error("QueryParserError", NoPath, "", "")

\* serde_json::from_str::<QueryAst> (query_builder.rs line 53)
serde_from_str(text) ==
    IF text.json = "malformed" THEN Err(QueryParserError) ELSE Ok(from_json(text))

\* lib.rs query_string_with_default_fields (lines 68-79) and query_string
query_string_with_default_fields(user_text, default_fields) ==
    to_json(UserTextQuery(user_text, default_fields, "And"))

query_string(user_text) == query_string_with_default_fields(user_text, None)

-----------------------------------------------------------------------------
(* query_builder.rs: the two visitors and the term walk.                   *)

\* A visit_range that records nothing.
visit_range_Skip(range_query_field_names, range_query) == range_query_field_names

\* RangeQueryFields::visit_range (lines 40-44)
visit_range(range_query_field_names, range_query) ==
    range_query_field_names \cup {range_query.field}

RECURSIVE RangeQueryFields_visit(_, _)
\* QueryAstVisitor::visit of RangeQueryFields: the default traversal, which
\* descends into the four clause lists of a Bool and under a Boost, and
\* calls visit_range on a Range.
RangeQueryFields_visit(range_query_field_names, ast) ==
    IF ast.type = "Range" THEN visit_range(range_query_field_names, ast)
    ELSE LET children == Children(ast)
         IN  range_query_field_names \cup
             UNION {RangeQueryFields_visit({}, children[i]) : i \in 1..Len(children)}

\* ExtractTermSetFields::visit (lines 110-117): overrides visit itself.
ExtractTermSetFields_visit(term_dict_fields_to_warm_up, ast) ==
    IF ast.type = "TermSet"
    THEN term_dict_fields_to_warm_up
             \cup {ast.terms_per_field[i].field : i \in 1..Len(ast.terms_per_field)}
    ELSE term_dict_fields_to_warm_up

\* extract_term_set_query_fields (lines 120-126)
extract_term_set_query_fields(ast) == ExtractTermSetFields_visit({}, ast)

\* A validation that lets text fields through.
validate_sort_by_field_AllowText(field_name, sch) ==
    IF field_name = <<"_score">> THEN Ok(Nothing)
    ELSE IF ~IsOk(get_field(sch, field_name))
    THEN Err(Error("UnknownSortField", field_name, "", ""))
    ELSE IF ~sch[field_name].fast
    THEN Err(Error("UnsortableField", field_name, sch[field_name].typ, "not fast"))
    ELSE Ok(Nothing)

\* validate_sort_by_field (lines 128-151)
validate_sort_by_field(field_name, sch) ==
    IF field_name = <<"_score">> THEN Ok(Nothing)
    ELSE IF ~IsOk(get_field(sch, field_name))
    THEN Err(Error("UnknownSortField", field_name, "", ""))
    ELSE IF sch[field_name].typ = "Str"
    THEN Err(Error("UnsortableField", field_name, "Str", "text"))
    ELSE IF ~sch[field_name].fast
    THEN Err(Error("UnsortableField", field_name, sch[field_name].typ, "not fast"))
    ELSE Ok(Nothing)

RECURSIVE Flatten(_)
Flatten(seqs) == IF seqs = <<>> THEN <<>> ELSE Head(seqs) \o Flatten(Tail(seqs))

RECURSIVE query_terms(_)
\* Query::query_terms: the (term, need_position) occurrences a compiled
\* query reports, in order. A term query reports its term without
\* positions, a phrase query each of its terms with positions, a Bool or
\* a Boost what its children report.
query_terms(q) ==
    CASE q.q = "Term" -> <<[term |-> q.term, need_position |-> FALSE]>>
      [] q.q = "Phrase" ->
            [i \in 1..Len(q.terms) |-> [term |-> q.terms[i][2], need_position |-> TRUE]]
      [] OTHER ->
            LET children == TantivyChildren(q)
            IN  Flatten([i \in 1..Len(children) |-> query_terms(children[i])])

EmptyMap == [x \in {} |-> FALSE]
MapGet(m, k, default) == IF k \in DOMAIN m THEN m[k] ELSE default
MapPut(m, k, v) == [x \in DOMAIN m \cup {k} |-> IF x = k THEN v ELSE m[x]]

\* A closure that stores the flag of the last occurrence (= instead of |=).
record_term_Overwrite(grouped, term, need_position) ==
    MapPut(grouped, term.field, MapPut(MapGet(grouped, term.field, EmptyMap), term, need_position))

\* The closure handed to query_terms (lines 82-89).
record_term(grouped, term, need_position) ==
    LET of_field == MapGet(grouped, term.field, EmptyMap)
    IN  MapPut(grouped, term.field,
               MapPut(of_field, term, MapGet(of_field, term, FALSE) \/ need_position))

\* A WarmupInfo whose posting_field_names is left at its default.
MakeWarmupInfo_NoPostings(term_set_fields, grouped, fast_fields) ==
    [term_dict_field_names |-> term_set_fields,
     posting_field_names |-> {},
     terms_grouped_by_field |-> grouped,
     fast_field_names |-> fast_fields]

\* WarmupInfo (lines 91-97)
MakeWarmupInfo(term_set_fields, grouped, fast_fields) ==
    [term_dict_field_names |-> term_set_fields,
     posting_field_names |-> term_set_fields,
     terms_grouped_by_field |-> grouped,
     fast_field_names |-> fast_fields]

-----------------------------------------------------------------------------
(* The inputs of the model.                                                *)

Clauses == {"must", "must_not", "should", "filter"}

\* The clause list `c` of a Bool built from (clause, child) pairs.
ClauseOf(pairs, c) ==
    LET s == SelectSeq(pairs, LAMBDA p : p[1] = c)
    IN  [i \in 1..Len(s) |-> s[i][2]]

BoolOf(pairs) ==
    BoolQuery(ClauseOf(pairs, "must"), ClauseOf(pairs, "must_not"),
              ClauseOf(pairs, "should"), ClauseOf(pairs, "filter"))

\* Every Bool with at most MaxBoolChildren children drawn from a pool.
MultiBools(pool) ==
    {BoolOf(p) : p \in UNION {[1..k -> Clauses \X pool] : k \in 0..MaxBoolChildren}}

\* One more level around each AST of a set: a Boost, or a one-clause Bool.
Wrap(S) == {Boost(a, 2) : a \in S} \cup {BoolOf(<<<<c, a>>>>) : c \in Clauses, a \in S}

RECURSIVE Wrapped(_, _)
Wrapped(S, d) == IF d = 0 THEN S ELSE S \cup Wrapped(Wrap(S), d - 1)

Number7 == JsonLiteral("Number", "7")
RangeU64 == RangeQuery(<<"u64_fast">>, Included(Number7), Unbounded)
RangeTitle == RangeQuery(<<"title">>, Included(JsonLiteral("String", "a")),
                         Excluded(JsonLiteral("String", "b")))
RangeNope == RangeQuery(<<"nope">>, Unbounded, Included(Number7))
RangeBlob == RangeQuery(<<"blob">>, Unbounded, Unbounded)
TermSetTitle == TermSetQuery(<<[field |-> <<"title">>, values |-> {"hello"}]>>)
TermSetTwo == TermSetQuery(<<[field |-> <<"desc">>, values |-> {"hello", "7"}],
                             [field |-> <<"title">>, values |-> {"hello"}]>>)
TermTitle == TermQuery(<<"title">>, "hello")
TermFoo == TermQuery(<<"foo">>, "hello")
RangeTag == RangeQuery(<<"tag">>, Included(JsonLiteral("String", "a")),
                       Excluded(JsonLiteral("String", "b")))
PhraseTitle == PhraseQuery(<<"title">>, "Hello World")
UserTextHello == UserTextQuery("hello", None, "And")

LeafAsts == {RangeU64, RangeTitle, RangeTag, RangeNope, RangeBlob, TermSetTitle, TermSetTwo,
             TermTitle, TermFoo, PhraseTitle, UserTextHello, MatchAll, MatchNone}

\* The children of the generated many-clause Bools.
BoolPool == {RangeU64, RangeNope, RangeBlob, TermSetTitle, TermTitle, PhraseTitle, UserTextHello,
             Boost(RangeNope, 2)}

Asts == Wrapped(LeafAsts, MaxDepth) \cup MultiBools(BoolPool) \cup
        {Boost(b, 2) : b \in MultiBools(BoolPool)}

-----------------------------------------------------------------------------
(* Values of the variables an entry point does not use.                    *)

ResolveIdle ==
    /\ full_path = <<>>
    /\ selection = NotRun
    /\ resolution = NotRun

CompileIdle ==
    /\ impl_res = NotRun
    /\ call_res = NotRun
    /\ strict_res = NotRun
    /\ lenient_res = NotRun

ParseIdle ==
    /\ default_search_fields = <<>>
    /\ parsed_res = NotRun

BuildIdle ==
    /\ request = Nothing
    /\ fast_field_names = {}
    /\ query = NotRun
    /\ term_set_query_fields = {}
    /\ pending_terms = <<>>
    /\ reported_terms = <<>>
    /\ terms_grouped_by_field = EmptyMap
    /\ build_res = NotRun

TermIdle ==
    /\ value_arg = ""
    /\ tokenize_arg = TRUE
    /\ term_res = NotRun

resolveVars == <<full_path, selection, resolution>>
termVars == <<value_arg, tokenize_arg, term_res>>
compileVars == <<impl_res, call_res, strict_res, lenient_res>>
parseVars == <<default_search_fields, parsed_res>>
buildVars == <<request, fast_field_names, query, term_set_query_fields, pending_terms,
               reported_terms, terms_grouped_by_field, build_res>>

-----------------------------------------------------------------------------
(* find_field_or_hit_dynamic as an entry point.                            *)

\* most segments of a generated path
MaxPathLen == 3

Segments == {"title", "server", "name", "_dynamic", "attrs", "foo"}
Paths == UNION {[1..n -> Segments] : n \in 0..MaxPathLen}

InitResolve ==
    /\ pc = "start"
    /\ schema \in Schemas
    /\ full_path \in Paths
    /\ selection = NotRun
    /\ resolution = NotRun
    /\ query_ast = MatchAll
    /\ with_validation = TRUE
    /\ CompileIdle /\ ParseIdle /\ BuildIdle
    /\ TermIdle

Resolve ==
    /\ pc = "start"
    /\ selection' = select_field(find_field(schema, full_path), full_path, schema)
    /\ resolution' = find_field_or_hit_dynamic(full_path, schema)
    /\ pc' = "done"
    /\ UNCHANGED <<schema, full_path, query_ast, with_validation>>
    /\ UNCHANGED <<compileVars, parseVars, buildVars>>
    /\ UNCHANGED termVars

NextResolve == Resolve

SpecResolve == InitResolve /\ [][NextResolve]_vars

-----------------------------------------------------------------------------
(* The compiler as an entry point: into_tantivy_ast_call on the root node, *)
(* then build_tantivy_query in both validation modes.                      *)

InitCompile ==
    /\ pc = "start"
    /\ schema \in Schemas
    /\ query_ast \in Asts
    /\ with_validation \in BOOLEAN
    /\ ResolveIdle /\ CompileIdle /\ ParseIdle /\ BuildIdle
    /\ TermIdle

\* The root node's own into_tantivy_ast_impl and the wrapper around it.
IntoTantivyAstCall ==
    /\ pc = "start"
    /\ impl_res' = Node_into_tantivy_ast_impl(
            query_ast, CompiledChildren(query_ast, schema, with_validation), schema)
    /\ call_res' = into_tantivy_ast_call(impl_res', with_validation)
    /\ pc' = "called"
    /\ UNCHANGED <<schema, query_ast, with_validation, strict_res, lenient_res>>
    /\ UNCHANGED <<resolveVars, parseVars, buildVars>>
    /\ UNCHANGED termVars

BuildTantivyQueryStrict ==
    /\ pc = "called"
    /\ strict_res' = build_tantivy_query(query_ast, schema, TRUE)
    /\ pc' = "strict"
    /\ UNCHANGED <<schema, query_ast, with_validation, impl_res, call_res, lenient_res>>
    /\ UNCHANGED <<resolveVars, parseVars, buildVars>>
    /\ UNCHANGED termVars

BuildTantivyQueryLenient ==
    /\ pc = "strict"
    /\ lenient_res' = build_tantivy_query(query_ast, schema, FALSE)
    /\ pc' = "done"
    /\ UNCHANGED <<schema, query_ast, with_validation, impl_res, call_res, strict_res>>
    /\ UNCHANGED <<resolveVars, parseVars, buildVars>>
    /\ UNCHANGED termVars

NextCompile ==
    \/ IntoTantivyAstCall
    \/ BuildTantivyQueryStrict
    \/ BuildTantivyQueryLenient

SpecCompile == InitCompile /\ [][NextCompile]_vars

-----------------------------------------------------------------------------
(* quickwit_query_ast::parse_user_query as an entry point.                 *)

UserTextLeaves ==
    {UserTextQuery(t, f, o) :
        t \in {"*", "hello", "title:hello desc:hello", "IN [hello]"},
        f \in {None, Some(<<>>), Some(<<<<"title">>>>)},
        o \in {"And", "Or"}}

ParseAsts ==
    Wrapped(UserTextLeaves \cup {TermTitle, RangeU64, MatchAll}, MaxDepth) \cup
    MultiBools({UserTextHello, UserTextQuery("*", None, "Or"),
                UserTextQuery("IN [hello]", None, "And"), TermTitle})

DefaultSearchFields == {<<>>, <<<<"desc">>>>, <<<<"title">>, <<"desc">>>>}

InitParse ==
    /\ pc = "start"
    /\ schema = TestSchema
    /\ query_ast \in ParseAsts
    /\ with_validation = TRUE
    /\ default_search_fields \in DefaultSearchFields
    /\ parsed_res = NotRun
    /\ ResolveIdle /\ CompileIdle /\ BuildIdle
    /\ TermIdle

ParseUserQuery ==
    /\ pc = "start"
    /\ parsed_res' = parse_user_query(query_ast, default_search_fields)
    /\ pc' = "done"
    /\ UNCHANGED <<schema, query_ast, with_validation, default_search_fields>>
    /\ UNCHANGED <<resolveVars, compileVars, buildVars>>
    /\ UNCHANGED termVars

NextParse == ParseUserQuery

SpecParse == InitParse /\ [][NextParse]_vars

-----------------------------------------------------------------------------
(* query_builder::build_query, statement by statement.                     *)

\* SearchRequest: the serialized query AST and the optional sort field.
SearchRequest(query_ast_json, sort_by_field) ==
    [query_ast |-> query_ast_json, sort_by_field |-> sort_by_field]

NoSort == [some |-> FALSE, field |-> <<>>]
SortBy(field_name) == [some |-> TRUE, field |-> field_name]

SortFields ==
    {<<"_score">>, <<"u64_fast">>, <<"title">>, <<"nope">>, <<"ip_notff">>, <<"flag">>,
     <<"tag">>, <<"dt">>, <<"cat">>, <<"blob">>, <<"attrs">>, <<"attrs", "k">>,
     <<"server", "running">>, <<"_dynamic">>}
SortedAsts == {MatchAll, TermTitle, RangeU64, RangeNope, TermSetTwo, Boost(TermSetTitle, 2)}

Requests ==
    {SearchRequest(to_json(a), NoSort) : a \in Asts} \cup
    {SearchRequest(to_json(a), SortBy(f)) : a \in SortedAsts, f \in SortFields} \cup
    {SearchRequest(query_string(t), NoSort) : t \in {"hello", "title:hello"}} \cup
    {SearchRequest(query_string_with_default_fields("hello", Some(<<<<"title">>>>)), NoSort)} \cup
    {SearchRequest(MalformedJson, NoSort)} \cup
    {SearchRequest(MalformedJson, SortBy(f)) : f \in {<<"u64_fast">>, <<"title">>}}

Init ==
    /\ pc = "start"
    /\ schema \in Schemas
    /\ with_validation \in BOOLEAN
    /\ request \in Requests
    /\ query_ast = Nothing
    /\ fast_field_names = {}
    /\ query = NotRun
    /\ term_set_query_fields = {}
    /\ pending_terms = <<>>
    /\ reported_terms = <<>>
    /\ terms_grouped_by_field = EmptyMap
    /\ build_res = NotRun
    /\ ResolveIdle /\ CompileIdle /\ ParseIdle
    /\ TermIdle

\* line 53
Deserialize ==
    /\ pc = "start"
    /\ IF IsOk(serde_from_str(request.query_ast))
       THEN /\ query_ast' = serde_from_str(request.query_ast).val
            /\ pc' = "visit"
            /\ UNCHANGED build_res
       ELSE /\ build_res' = serde_from_str(request.query_ast)
            /\ pc' = "done"
            /\ UNCHANGED query_ast
    /\ UNCHANGED <<schema, with_validation, request, fast_field_names, query,
                   term_set_query_fields, pending_terms, reported_terms,
                   terms_grouped_by_field>>
    /\ UNCHANGED <<resolveVars, compileVars, parseVars>>
    /\ UNCHANGED termVars

\* lines 54-56
CollectRangeFields ==
    /\ pc = "visit"
    /\ fast_field_names' = RangeQueryFields_visit({}, query_ast)
    /\ pc' = "sort"
    /\ UNCHANGED <<schema, with_validation, request, query_ast, query,
                   term_set_query_fields, pending_terms, reported_terms,
                   terms_grouped_by_field, build_res>>
    /\ UNCHANGED <<resolveVars, compileVars, parseVars>>
    /\ UNCHANGED termVars

\* A variant that validates the sort field only with validation.
ValidateSort_OnlyStrict ==
    /\ pc = "sort"
    /\ IF with_validation /\ request.sort_by_field.some
          /\ ~IsOk(validate_sort_by_field(request.sort_by_field.field, schema))
       THEN /\ build_res' = validate_sort_by_field(request.sort_by_field.field, schema)
            /\ pc' = "done"
       ELSE /\ pc' = "compile"
            /\ UNCHANGED build_res
    /\ UNCHANGED <<schema, with_validation, request, query_ast, fast_field_names, query,
                   term_set_query_fields, pending_terms, reported_terms,
                   terms_grouped_by_field>>
    /\ UNCHANGED <<resolveVars, compileVars, parseVars>>
    /\ UNCHANGED termVars

\* A variant that goes on to the compilation whatever the sort field.
ValidateSort_Skip ==
    /\ pc = "sort"
    /\ pc' = "compile"
    /\ UNCHANGED <<schema, with_validation, request, query_ast, fast_field_names, query,
                   term_set_query_fields, pending_terms, reported_terms,
                   terms_grouped_by_field, build_res>>
    /\ UNCHANGED <<resolveVars, compileVars, parseVars>>
    /\ UNCHANGED termVars

\* lines 73-75
ValidateSort ==
    /\ pc = "sort"
    /\ IF request.sort_by_field.some
          /\ ~IsOk(validate_sort_by_field(request.sort_by_field.field, schema))
       THEN /\ build_res' = validate_sort_by_field(request.sort_by_field.field, schema)
            /\ pc' = "done"
       ELSE /\ pc' = "compile"
            /\ UNCHANGED build_res
    /\ UNCHANGED <<schema, with_validation, request, query_ast, fast_field_names, query,
                   term_set_query_fields, pending_terms, reported_terms,
                   terms_grouped_by_field>>
    /\ UNCHANGED <<resolveVars, compileVars, parseVars>>
    /\ UNCHANGED termVars

\* line 77
Compile ==
    /\ pc = "compile"
    /\ query' = build_tantivy_query(query_ast, schema, with_validation)
    /\ IF IsOk(query')
       THEN /\ pc' = "extract"
            /\ UNCHANGED build_res
       ELSE /\ build_res' = query'
            /\ pc' = "done"
    /\ UNCHANGED <<schema, with_validation, request, query_ast, fast_field_names,
                   term_set_query_fields, pending_terms, reported_terms,
                   terms_grouped_by_field>>
    /\ UNCHANGED <<resolveVars, compileVars, parseVars>>
    /\ UNCHANGED termVars

\* lines 79-82: the term set fields, then query_terms starts its walk
ExtractTermSet ==
    /\ pc = "extract"
    /\ term_set_query_fields' = extract_term_set_query_fields(query_ast)
    /\ pending_terms' = query_terms(query.val)
    /\ pc' = "terms"
    /\ UNCHANGED <<schema, with_validation, request, query_ast, fast_field_names, query,
                   reported_terms, terms_grouped_by_field, build_res>>
    /\ UNCHANGED <<resolveVars, compileVars, parseVars>>
    /\ UNCHANGED termVars

\* lines 82-89: one call of the closure. The order of the calls is the
\* compiled query's own (tantivy's query_terms); any order is allowed.
ReportTerm ==
    /\ pc = "terms"
    /\ \E i \in 1..Len(pending_terms) :
        /\ terms_grouped_by_field' =
                record_term(terms_grouped_by_field, pending_terms[i].term,
                            pending_terms[i].need_position)
        /\ reported_terms' = Append(reported_terms, pending_terms[i])
        /\ pending_terms' = RemoveAt(pending_terms, i)
    /\ UNCHANGED <<pc, schema, with_validation, request, query_ast, fast_field_names, query,
                   term_set_query_fields, build_res>>
    /\ UNCHANGED <<resolveVars, compileVars, parseVars>>
    /\ UNCHANGED termVars

\* lines 91-99
Assemble ==
    /\ pc = "terms"
    /\ pending_terms = <<>>
    /\ build_res' = Ok([query |-> query.val,
                        warmup_info |-> MakeWarmupInfo(term_set_query_fields,
                                                       terms_grouped_by_field,
                                                       fast_field_names)])
    /\ pc' = "done"
    /\ UNCHANGED <<schema, with_validation, request, query_ast, fast_field_names, query,
                   term_set_query_fields, pending_terms, reported_terms,
                   terms_grouped_by_field>>
    /\ UNCHANGED <<resolveVars, compileVars, parseVars>>
    /\ UNCHANGED termVars

Next ==
    \/ Deserialize
    \/ CollectRangeFields
    \/ ValidateSort
    \/ Compile
    \/ ExtractTermSet
    \/ ReportTerm
    \/ Assemble

Spec == Init /\ [][Next]_vars

-----------------------------------------------------------------------------
(* Properties of build_query (specification Spec).                         *)

\* The field names of the Range nodes of an AST, at any depth.
RangeFieldNames(ast) == {n.field : n \in {m \in Nodes(ast) : m.type = "Range"}}

\* The field keys of the TermSet nodes of an AST, at any depth.
TermSetFieldNames(ast) ==
    UNION {{n.terms_per_field[i].field : i \in 1..Len(n.terms_per_field)} :
            n \in {m \in Nodes(ast) : m.type = "TermSet"}}

\* C1: whenever build_query returns a WarmupInfo, its fast_field_names is
\* exactly the set of the field names of the Range nodes of the AST, at any
\* depth under Bool clause lists and Boost, and holds no other name.
C1_FastFieldNamesAreRangeFields ==
    IsOk(build_res) =>
        build_res.val.warmup_info.fast_field_names = RangeFieldNames(query_ast)

\* C1 witness: build_query returned for a Boost over a Bool, and the
\* Range nodes below name two distinct fields.
C1_Witness ==
    /\ IsOk(build_res)
    /\ query_ast.type = "Boost"
    /\ query_ast.underlying.type = "Bool"
    /\ Cardinality(RangeFieldNames(query_ast)) = 2
    /\ Cardinality(build_res.val.warmup_info.fast_field_names) = 2

\* C2: whenever build_query returns a WarmupInfo, every field key of every
\* TermSet node of the AST, the root or nested at any depth, is in both
\* term_dict_field_names and posting_field_names.
C2_NestedTermSetFieldsWarmed ==
    IsOk(build_res) =>
        /\ TermSetFieldNames(query_ast) \subseteq build_res.val.warmup_info.term_dict_field_names
        /\ TermSetFieldNames(query_ast) \subseteq build_res.val.warmup_info.posting_field_names

\* C3: in every WarmupInfo build_query returns, posting_field_names and
\* term_dict_field_names are the same set.
C3_PostingEqualsTermDict ==
    IsOk(build_res) =>
        build_res.val.warmup_info.posting_field_names =
            build_res.val.warmup_info.term_dict_field_names

\* C3 witness: a WarmupInfo returned for a request with a sort field whose
\* TermSet names two fields.
C3_Witness ==
    /\ IsOk(build_res)
    /\ request.sort_by_field.some
    /\ Cardinality(build_res.val.warmup_info.term_dict_field_names) = 2
    /\ build_res.val.warmup_info.posting_field_names # {}

\* The flags the map must hold for the occurrences of a sequence: one
\* entry per distinct (field, term), true iff some occurrence needs positions.
GroupedOr(occurrences) ==
    [f \in {o.term.field : o \in Range(occurrences)} |->
        [t \in {o.term : o \in {p \in Range(occurrences) : p.term.field = f}} |->
            \E o \in Range(occurrences) : o.term = t /\ o.need_position]]

\* C4: terms_grouped_by_field holds one entry per distinct (field, term)
\* pair reported so far, whose flag is the OR of the need-position flags of
\* its reported occurrences, in whatever order they were reported; the map
\* returned covers every occurrence of the compiled query.
C4_TermsGroupedByFieldIsOr ==
    /\ terms_grouped_by_field = GroupedOr(reported_terms)
    /\ IsOk(build_res) =>
            build_res.val.warmup_info.terms_grouped_by_field =
                GroupedOr(query_terms(build_res.val.query))

\* C4 witness: the same term was reported first with positions needed,
\* later without, and the returned map holds true for it.
C4_Witness ==
    /\ IsOk(build_res)
    /\ \E i, j \in 1..Len(reported_terms) :
        /\ i < j
        /\ reported_terms[i].term = reported_terms[j].term
        /\ reported_terms[i].need_position
        /\ ~reported_terms[j].need_position
        /\ build_res.val.warmup_info.terms_grouped_by_field
                [reported_terms[i].term.field][reported_terms[i].term]

-----------------------------------------------------------------------------
(* Properties of the compiler (specification SpecCompile).                 *)

\* C5: into_tantivy_ast_call returns an Ok result of into_tantivy_ast_impl
\* unchanged in both modes, its error unchanged when with_validation is
\* true, and Ok(match-none) in place of its error when with_validation is
\* false; the call on the QueryAst node gives the same result.
C5_WrapperPolicy ==
    pc # "start" =>
        /\ IsOk(impl_res) => call_res = impl_res
        /\ IsErr(impl_res) /\ with_validation => call_res = impl_res
        /\ IsErr(impl_res) /\ ~with_validation => call_res = Ok(TantivyMatchNone)
        /\ QueryAst_into_tantivy_ast_call(query_ast, schema, with_validation) = call_res

\* C5 witness: a Range node failed to compile without validation and the
\* wrapper answered match-none.
C5_Witness ==
    /\ pc # "start"
    /\ ~with_validation
    /\ query_ast.type = "Range"
    /\ IsErr(impl_res)
    /\ call_res = Ok(TantivyMatchNone)

\* The errors the leaves of an AST raise when compiled on their own.
LeafErrors(ast, sch) ==
    {r \in {Node_into_tantivy_ast_impl(n, <<>>, sch) :
                n \in {m \in Nodes(ast) : Children(m) = <<>>}} : IsErr(r)}

\* C6: whenever build_tantivy_query with with_validation = true returns an
\* error, the same call with with_validation = false returns Ok, and the
\* strict error is the one raised by a failing node of the AST.
C6_StrictErrorIsLenientOk ==
    pc = "done" /\ IsErr(strict_res) =>
        /\ IsOk(lenient_res)
        /\ strict_res \in LeafErrors(query_ast, schema)

\* C7: compiling an AST that holds a UserText node, at the root or nested,
\* fails with UserQueryNotParsed for both values of with_validation.
C7_UserTextNeverCompiles ==
    pc = "done" /\ (\E n \in Nodes(query_ast) : n.type = "UserText") =>
        /\ strict_res = Err(UserQueryNotParsed)
        /\ lenient_res = Err(UserQueryNotParsed)

-----------------------------------------------------------------------------
(* A property of build_query on free text (specification Spec).            *)

\* C8: a request built by query_string from a bare term, with no default
\* search field, makes build_query fail with NoDefaultField for both
\* values of with_validation.
C8_BareTermFailsNoDefaultField ==
    pc = "done" /\ request = SearchRequest(query_string("hello"), NoSort) =>
        build_res = Err(NoDefaultField)

-----------------------------------------------------------------------------
(* A property of parse_user_query (specification SpecParse).               *)

\* C9: if parse_user_query returns Ok(ast'), ast' holds no UserText node
\* at any depth.
C9_NoUserTextAfterParse ==
    pc = "done" /\ IsOk(parsed_res) =>
        \A n \in Nodes(parsed_res.val) : n.type # "UserText"

\* C9 witness: parse_user_query returned Ok for a UserText under a chain of
\* two wrappers beginning with a Boost.
C9_Witness ==
    /\ pc = "done"
    /\ IsOk(parsed_res)
    /\ query_ast.type = "Boost"
    /\ Children(query_ast.underlying) # <<>>
    /\ \E n \in Nodes(query_ast.underlying) : n # query_ast.underlying /\ n.type = "UserText"

-----------------------------------------------------------------------------
(* Properties of find_field_or_hit_dynamic (specification SpecResolve).    *)

\* Some prefix of the path names a declared field.
DirectMatch == \E n \in 1..Len(full_path) : Prefix(full_path, n) \in DOMAIN schema

C12_SubPathOnlyUnderJson ==
    pc = "done" =>
        /\ IsOk(selection) /\ selection.val.path # <<>>
                /\ schema[selection.val.field].typ # "Json" =>
                resolution = Err(FieldDoesNotExist(full_path))
        /\ IsOk(resolution) =>
                (resolution.val.path # <<>> <=> schema[resolution.val.field].typ = "Json")

\* C12 witness: a declared Str field followed by two more segments was
\* resolved and refused.
C12_Witness ==
    /\ pc = "done"
    /\ Len(full_path) = 3
    /\ IsOk(selection)
    /\ selection.val.field = <<"title">>
    /\ Len(selection.val.path) = 2
    /\ resolution = Err(FieldDoesNotExist(full_path))

-----------------------------------------------------------------------------
(* RangeQuery::into_tantivy_ast_impl as an entry point.                    *)

\* A schema whose fields are not fast, one of each type that can be
\* declared without the fast flag (a facet field is always fast).
NonFastSchema ==
    (<<"str">> :> Entry("Str", FALSE, "default")) @@
    (<<"u64">> :> Entry("U64", FALSE, "none")) @@
    (<<"i64">> :> Entry("I64", FALSE, "none")) @@
    (<<"f64">> :> Entry("F64", FALSE, "none")) @@
    (<<"bool">> :> Entry("Bool", FALSE, "none")) @@
    (<<"date">> :> Entry("Date", FALSE, "none")) @@
    (<<"ipaddr">> :> Entry("IpAddr", FALSE, "none")) @@
    (<<"bytes">> :> Entry("Bytes", FALSE, "none")) @@
    (<<"json">> :> Entry("Json", FALSE, "default"))

RangeSchemas == Schemas \cup {NonFastSchema}

\* The fields of the generated Range nodes: every declared name, a name no
\* schema declares, and sub-paths of a Str and of two JSON fields.
RangeFields ==
    UNION {DOMAIN sch : sch \in RangeSchemas} \cup
    {<<"nope">>, <<"title", "k">>, <<"attrs", "k">>, <<"json", "k">>}

RangeBounds ==
    {Unbounded, Included(Number7), Excluded(JsonLiteral("String", "a")),
     Included(JsonLiteral("Bool", "true"))}

InitRange ==
    /\ pc = "start"
    /\ schema \in RangeSchemas
    /\ query_ast \in {RangeQuery(f, l, u) : f \in RangeFields, l \in RangeBounds, u \in RangeBounds}
    /\ with_validation = TRUE
    /\ ResolveIdle /\ CompileIdle /\ ParseIdle /\ BuildIdle
    /\ TermIdle

\* RangeQuery::into_tantivy_ast_impl, with the outcome of its field
\* resolution (line 76) kept.
CompileRange ==
    /\ pc = "start"
    /\ resolution' = find_field_or_hit_dynamic(query_ast.field, schema)
    /\ impl_res' = RangeQuery_into_tantivy_ast_impl(query_ast, schema)
    /\ pc' = "done"
    /\ UNCHANGED <<schema, query_ast, with_validation, full_path, selection,
                   call_res, strict_res, lenient_res>>
    /\ UNCHANGED <<parseVars, buildVars>>
    /\ UNCHANGED termVars

NextRange == CompileRange

SpecRange == InitRange /\ [][NextRange]_vars

C14_BoolFacetNotSupportedAnyField ==
    pc = "done" /\ query_ast.type = "Range" /\ IsOk(resolution)
                /\ schema[resolution.val.field].typ \in {"Bool", "Facet"} =>
        impl_res = Err(RangeQueryNotSupportedForField(
                        IF schema[resolution.val.field].typ = "Bool" THEN "bool" ELSE "facet",
                        resolution.val.field))

\* C14 amended: the same for every boolean or facet field that is a fast
\* field; a boolean field that is not fast fails with SchemaError instead.
C14_FastBoolFacetNotSupported ==
    pc = "done" /\ query_ast.type = "Range" /\ IsOk(resolution)
                /\ schema[resolution.val.field].typ \in {"Bool", "Facet"} =>
        impl_res = IF schema[resolution.val.field].fast
                   THEN Err(RangeQueryNotSupportedForField(
                            IF schema[resolution.val.field].typ = "Bool" THEN "bool" ELSE "facet",
                            resolution.val.field))
                   ELSE Err(SchemaError(resolution.val.field))

\* C14 witness: a Range with two bounds on a fast boolean field failed
\* with RangeQueryNotSupportedForField.
C14_Witness ==
    /\ pc = "done"
    /\ query_ast.type = "Range"
    /\ IsOk(resolution)
    /\ schema[resolution.val.field].typ = "Bool"
    /\ schema[resolution.val.field].fast
    /\ query_ast.lower_bound # Unbounded
    /\ query_ast.upper_bound # Unbounded
    /\ impl_res = Err(RangeQueryNotSupportedForField("bool", resolution.val.field))

-----------------------------------------------------------------------------
(* A property of the sort validation of build_query (specification Spec).  *)

\* build_query stopped at validate_sort_by_field.
SortRejected ==
    IsErr(build_res) /\ build_res.err.kind \in {"UnknownSortField", "UnsortableField"}

\* The sort fields the claim says are accepted.
SortAcceptable(field_name, sch) ==
    \/ field_name = <<"_score">>
    \/ /\ field_name \in DOMAIN sch
       /\ sch[field_name].typ # "Str"
       /\ sch[field_name].fast

\* C15: validate_sort_by_field accepts a sort field exactly when it is
\* `_score` or names a declared field that is not Str and is fast; it fails
\* for an undeclared name, for every Str field and for every non-fast field.
C15_SortFieldAccepted ==
    pc \in {"compile", "extract", "terms", "done"} /\ query_ast # Nothing
            /\ request.sort_by_field.some =>
        /\ SortRejected <=> ~SortAcceptable(request.sort_by_field.field, schema)
        /\ IsOk(validate_sort_by_field(request.sort_by_field.field, schema))
                <=> SortAcceptable(request.sort_by_field.field, schema)

\* C15 witness: build_query refused a sort on a fast Str field.
C15_Witness ==
    /\ pc = "done"
    /\ request.sort_by_field.some
    /\ request.sort_by_field.field \in DOMAIN schema
    /\ schema[request.sort_by_field.field].typ = "Str"
    /\ schema[request.sort_by_field.field].fast
    /\ SortRejected

-----------------------------------------------------------------------------
(* utils::compute_query as an entry point.                                 *)

\* A schema with the text indexing options a Str or JSON field can have:
\* the default tokenizer, the raw one, a name the registry does not know,
\* and no text indexing at all.
TermSchema ==
    (<<"text">> :> Entry("Str", FALSE, "default")) @@
    (<<"keyword">> :> Entry("Str", FALSE, "raw")) @@
    (<<"odd">> :> Entry("Str", FALSE, "unregistered")) @@
    (<<"stored">> :> Entry("Str", FALSE, "none")) @@
    (<<"doc">> :> Entry("Json", FALSE, "default")) @@
    (<<"rawdoc">> :> Entry("Json", FALSE, "raw")) @@
    (<<"plaindoc">> :> Entry("Json", FALSE, "none")) @@
    (<<"count">> :> Entry("U64", TRUE, "none"))

TermSchemas == Schemas \cup {TermSchema}

TermPaths ==
    UNION {DOMAIN sch : sch \in TermSchemas} \cup
    {<<"nope">>, <<"text", "k">>, <<"doc", "k">>, <<"rawdoc", "k">>, <<"plaindoc", "k">>,
     <<"attrs", "k">>}

TermTexts == {"hello", "Hello World", "!", "7", "true", "2023-01-10T15:13:35Z", LongNumber}

InitTerm ==
    /\ pc = "start"
    /\ schema \in TermSchemas
    /\ full_path \in TermPaths
    /\ value_arg \in TermTexts
    /\ tokenize_arg \in BOOLEAN
    /\ term_res = NotRun
    /\ selection = NotRun
    /\ resolution = NotRun
    /\ query_ast = MatchAll
    /\ with_validation = TRUE
    /\ CompileIdle /\ ParseIdle /\ BuildIdle

\* compute_query, with the outcome of its field resolution (line 94) kept.
ComputeQuery ==
    /\ pc = "start"
    /\ resolution' = find_field_or_hit_dynamic(full_path, schema)
    /\ term_res' = compute_query(full_path, value_arg, tokenize_arg, schema)
    /\ pc' = "done"
    /\ UNCHANGED <<schema, full_path, selection, query_ast, with_validation,
                   value_arg, tokenize_arg>>
    /\ UNCHANGED <<compileVars, parseVars, buildVars>>

NextTerm == ComputeQuery

SpecTerm == InitTerm /\ [][NextTerm]_vars

\* The tokens the field's tokenizer emits for the value of the call.
ValueTokens == token_stream(schema[resolution.val.field].tokenizer, value_arg)

\* The call tokenizes and the field's tokenizer is registered.
ActiveTokenizer ==
    tokenize_arg /\ schema[resolution.val.field].tokenizer \in RegisteredTokenizers

\* C16: a term on a Str field with an active tokenizer compiles to
\* match-none for no token, to a term query on the token for one token, to
\* a phrase query of every token with its position for two or more; without
\* tokenization or a registered tokenizer, to a term query on the value.
C16_StrTermByTokenCount ==
    pc = "done" /\ IsOk(resolution) /\ schema[resolution.val.field].typ = "Str" =>
        /\ ActiveTokenizer /\ Len(ValueTokens) = 0 => term_res = Ok(TantivyMatchNone)
        /\ ActiveTokenizer /\ Len(ValueTokens) = 1 =>
                term_res = Ok(TantivyTermQuery(
                                Term(resolution.val.field, <<>>, "Str", ValueTokens[1][2])))
        /\ ActiveTokenizer /\ Len(ValueTokens) >= 2 =>
                term_res = Ok(TantivyPhraseQuery(
                                [i \in 1..Len(ValueTokens) |->
                                    <<ValueTokens[i][1],
                                      Term(resolution.val.field, <<>>, "Str", ValueTokens[i][2])>>]))
        /\ ~ActiveTokenizer =>
                term_res = Ok(TantivyTermQuery(
                                Term(resolution.val.field, <<>>, "Str", value_arg)))

\* C16 witness: a value without any token compiled to match-none on a Str
\* field with an active tokenizer.
C16_Witness ==
    /\ pc = "done"
    /\ IsOk(resolution)
    /\ schema[resolution.val.field].typ = "Str"
    /\ ActiveTokenizer
    /\ value_arg = "!"
    /\ term_res = Ok(TantivyMatchNone)

\* C19: for a term on a JSON field whose text has a typed reading, the
\* compiled result is a should-disjunction that holds the typed term
\* together with the text reading, whatever the number of tokens of the text.
C19_JsonTypedAlternativeKept ==
    pc = "done" /\ IsOk(resolution) /\ schema[resolution.val.field].typ = "Json"
                /\ convert_to_fast_value_and_get_term(
                        resolution.val.field, resolution.val.path, value_arg).some =>
        /\ IsOk(term_res)
        /\ term_res.val.q = "Bool"
        /\ Len(term_res.val.should) = 2
        /\ term_res.val.should[1] =
                TantivyTermQuery(convert_to_fast_value_and_get_term(
                        resolution.val.field, resolution.val.path, value_arg).fields[1])

-----------------------------------------------------------------------------
(* Properties of build_query in strict mode (specification Spec).          *)

\* C17: in strict mode, build_query on a Range node whose field is of
\* type Str fails with the error saying that the field is of type Str and
\* that range queries are not supported on it, fast field or not.
C17_StrRangeRejected ==
    pc = "done" /\ with_validation /\ query_ast # Nothing /\ query_ast.type = "Range"
                /\ query_ast.field \in DOMAIN schema
                /\ schema[query_ast.field].typ = "Str" =>
        build_res = Err(RangeOnTextField(query_ast.field))

\* C18: in strict mode, build_query on a term whose field path matches no
\* declared field fails with FieldDoesNotExist naming the full path, also
\* when the schema declares the dynamic JSON field.
C18_UndeclaredTermFieldRejected ==
    pc = "done" /\ with_validation /\ query_ast # Nothing /\ query_ast.type = "Term"
                /\ (\A n \in 1..Len(query_ast.field) :
                        Prefix(query_ast.field, n) \notin DOMAIN schema) =>
        build_res = Err(FieldDoesNotExist(query_ast.field))

-----------------------------------------------------------------------------
(* The lenient mode is local to the failing node (specification            *)
(* SpecCompile).                                                           *)

\* A node with no child whose own into_tantivy_ast_impl returns an error.
FailingLeaf(ast, sch) ==
    Children(ast) = <<>> /\ IsErr(Node_into_tantivy_ast_impl(ast, <<>>, sch))

RECURSIVE FailingAsMatchNone(_, _)
\* The AST with every failing node replaced by a MatchNone node.
FailingAsMatchNone(ast, sch) ==
    CASE ast.type = "Bool" ->
            [ast EXCEPT
                !.must = [i \in 1..Len(ast.must) |-> FailingAsMatchNone(ast.must[i], sch)],
                !.must_not = [i \in 1..Len(ast.must_not) |->
                                    FailingAsMatchNone(ast.must_not[i], sch)],
                !.should = [i \in 1..Len(ast.should) |->
                                    FailingAsMatchNone(ast.should[i], sch)],
                !.filter = [i \in 1..Len(ast.filter) |->
                                    FailingAsMatchNone(ast.filter[i], sch)]]
      [] ast.type = "Boost" ->
            [ast EXCEPT !.underlying = FailingAsMatchNone(ast.underlying, sch)]
      [] OTHER -> IF FailingLeaf(ast, sch) THEN MatchNone ELSE ast

\* C20: a Boost whose child fails compiles, without validation, to a boost
\* query with the same factor over match-none and, with validation, to the
\* child's error unchanged; without validation the compiled form of an AST
\* is the one of the same AST with MatchNone nodes in place of its failing
\* nodes, so that every other subtree compiles as it does on its own.
C20_LenientFailureIsLocal ==
    pc # "start" =>
        /\ query_ast.type = "Boost" /\ FailingLeaf(query_ast.underlying, schema) =>
            /\ ~with_validation =>
                call_res = Ok(TantivyBoostQuery(TantivyMatchNone, query_ast.boost))
            /\ with_validation =>
                call_res = Node_into_tantivy_ast_impl(query_ast.underlying, <<>>, schema)
        /\ ~with_validation =>
            call_res = QueryAst_into_tantivy_ast_call(
                            FailingAsMatchNone(query_ast, schema), schema, TRUE)

\* C20 witness: without validation, a Bool holds a Boost over a failing
\* Range beside a clause that compiles to something else than match-none,
\* and the call answered a Bool query.
C20_Witness ==
    /\ pc # "start"
    /\ ~with_validation
    /\ query_ast.type = "Bool"
    /\ \E n \in Range(Children(query_ast)) :
            n.type = "Boost" /\ FailingLeaf(n.underlying, schema)
    /\ IsOk(call_res)
    /\ call_res.val.q = "Bool"
    /\ \E q \in Range(TantivyChildren(call_res.val)) :
            q.q = "Boost" /\ q.underlying = TantivyMatchNone
    /\ \E q \in Range(TantivyChildren(call_res.val)) : q.q \in {"Term", "Range"}

-----------------------------------------------------------------------------
(* build_query without validation (specification Spec).                    *)

\* The request's sort field is absent or passes validate_sort_by_field.
SortAbsentOrValid ==
    request.sort_by_field.some =>
        IsOk(validate_sort_by_field(request.sort_by_field.field, schema))

\* C21: without validation, when a Range node of the AST does not compile,
\* build_query still returns Ok: the compiled query is the one of the AST
\* with no-match in place of that node, and fast_field_names holds the
\* node's field name.
C21_FailingRangeStillWarmed ==
    pc = "done" /\ ~with_validation /\ query_ast # Nothing /\ SortAbsentOrValid =>
        \A n \in Nodes(query_ast) :
            n.type = "Range" /\ ~IsOk(RangeQuery_into_tantivy_ast_impl(n, schema)) =>
                /\ IsOk(build_res)
                /\ build_res.val.query =
                        build_tantivy_query(FailingAsMatchNone(query_ast, schema),
                                            schema, TRUE).val
                /\ n.field \in build_res.val.warmup_info.fast_field_names

\* C21 witness: without validation, a Range on an unknown field sits under
\* a Boost or a Bool; build_query returned Ok with the field name warmed.
C21_Witness ==
    /\ pc = "done"
    /\ ~with_validation
    /\ query_ast # Nothing
    /\ query_ast.type \in {"Bool", "Boost"}
    /\ RangeNope \in Nodes(query_ast)
    /\ IsErr(RangeQuery_into_tantivy_ast_impl(RangeNope, schema))
    /\ IsOk(build_res)
    /\ <<"nope">> \in build_res.val.warmup_info.fast_field_names

\* C22: build_query compiles the AST only after the request deserialized
\* and its sort field, if any, passed validate_sort_by_field: with an
\* invalid sort field the result is the sort-field error and no compilation
\* took place; when the AST does not deserialize the result is the
\* deserialization error, whatever the sort field, and no compilation took
\* place.
C22_SortValidatedBeforeCompile ==
    /\ query # NotRun => query_ast # Nothing /\ SortAbsentOrValid
    /\ pc = "done" /\ ~IsOk(serde_from_str(request.query_ast)) =>
            /\ build_res = serde_from_str(request.query_ast)
            /\ query = NotRun
    /\ pc = "done" /\ IsOk(serde_from_str(request.query_ast)) /\ ~SortAbsentOrValid =>
            /\ build_res = validate_sort_by_field(request.sort_by_field.field, schema)
            /\ query = NotRun

\* C22 witness: a strict request whose sort field is invalid and whose AST
\* does not compile with validation ended with the sort-field error.
C22_Witness ==
    /\ pc = "done"
    /\ with_validation
    /\ query_ast # Nothing
    /\ ~SortAbsentOrValid
    /\ IsErr(build_tantivy_query(query_ast, schema, TRUE))
    /\ build_res = validate_sort_by_field(request.sort_by_field.field, schema)
    /\ build_res # build_tantivy_query(query_ast, schema, TRUE)

-----------------------------------------------------------------------------
(* The search fields of a UserText node (specification SpecParse).         *)

\* C23: a UserText node is parsed on its own default_fields whenever they
\* are present, empty or not, whatever the caller's default search fields,
\* and on the caller's default search fields only when they are absent;
\* the operator is the node's own in both cases.
C23_OwnDefaultFieldsFirst ==
    pc = "done" /\ query_ast.type = "UserText" =>
        /\ query_ast.default_fields.some =>
                parsed_res = convert_to_query_ast(query_ast.user_text,
                                                  query_ast.default_fields.fields,
                                                  query_ast.default_operator)
        /\ ~query_ast.default_fields.some =>
                parsed_res = convert_to_query_ast(query_ast.user_text,
                                                  default_search_fields,
                                                  query_ast.default_operator)

\* C23 witness: a bare term whose node carries an empty list of default
\* fields, parsed by a caller that has default search fields, fails for want
\* of a default field.
C23_Witness ==
    /\ pc = "done"
    /\ query_ast.type = "UserText"
    /\ query_ast.user_text = "hello"
    /\ query_ast.default_fields.some
    /\ query_ast.default_fields.fields = <<>>
    /\ default_search_fields # <<>>
    /\ parsed_res = Err(NoDefaultField)

-----------------------------------------------------------------------------
(* The two validation modes compared (specification SpecCompile).          *)

\* C24: when build_tantivy_query with validation returns Ok(q), the call
\* without validation returns the same Ok(q); the two calls differ only on
\* an AST that holds a node whose own compilation does not succeed.
C24_LenientAgreesWithStrictOk ==
    pc = "done" =>
        /\ IsOk(strict_res) => lenient_res = strict_res
        /\ lenient_res # strict_res =>
                \E n \in Nodes(query_ast) :
                    /\ Children(n) = <<>>
                    /\ ~IsOk(Node_into_tantivy_ast_impl(n, <<>>, schema))

\* C24 witness: a Bool with two clauses compiled with validation to a Bool
\* query, and the call without validation returned the same query.
C24_Witness ==
    /\ pc = "done"
    /\ query_ast.type = "Bool"
    /\ Len(Children(query_ast)) = 2
    /\ IsOk(strict_res)
    /\ strict_res.val.q = "Bool"
    /\ lenient_res = strict_res

-----------------------------------------------------------------------------
(* What the lenient mode of build_query does not cover (specification      *)
(* Spec).                                                                  *)

\* C25: without validation, build_query returns an error, with no query
\* and no WarmupInfo, when the request does not deserialize and when its
\* sort field fails validate_sort_by_field; it returns Ok for every request
\* that deserializes, whose sort field is absent or valid and whose
\* compilation does not abort.
C25_LenientCoversCompilationOnly ==
    pc = "done" /\ ~with_validation =>
        /\ ~IsOk(serde_from_str(request.query_ast)) =>
                IsErr(build_res) /\ build_res.val = Nothing
        /\ IsOk(serde_from_str(request.query_ast)) /\ ~SortAbsentOrValid =>
                IsErr(build_res) /\ build_res.val = Nothing
        /\ (/\ IsOk(serde_from_str(request.query_ast))
            /\ SortAbsentOrValid
            /\ build_tantivy_query(query_ast, schema, FALSE).tag # "Panic") =>
                IsOk(build_res)

\* C25 witness: without validation, a request with a text sort field and
\* an AST that compiles ended with the sort-field error.
C25_Witness ==
    /\ pc = "done"
    /\ ~with_validation
    /\ query_ast # Nothing
    /\ request.sort_by_field.some
    /\ ~SortAbsentOrValid
    /\ IsOk(build_tantivy_query(query_ast, schema, FALSE))
    /\ IsErr(build_res)

=============================================================================
